---- MODULE Spec2Model ----
(***************************************************************************)
(* Authentication / authorization core of api-user-template.               *)
(*                                                                         *)
(* The store (User and Token tables), the clock, the cookies clients hold  *)
(* and the requests in flight are the state.  A request advances one       *)
(* store operation at a time: each action runs the pending store call of   *)
(* one request and the synchronous code that follows it, up to the next    *)
(* store call or to the response, so that requests interleave exactly at   *)
(* the awaits of the source.                                               *)
(***************************************************************************)
EXTENDS Integers, Sequences, FiniteSets, TLC

VARIABLES
    users,      \* User table: sequence of rows, users[i].id = i (autoincrement)
    tokens,     \* Token table: set of rows [id, key, userId, active]
    nextTokenId,\* autoincrement counter of the Token table
    now,        \* wall clock, in seconds (jwt iat/exp granularity)
    jar,        \* token strings delivered to clients in a jwt cookie
    loggedOut,  \* history: the Token rows a logout deleted (answered 201)
    nreq,       \* number of requests received so far
    reqs,       \* the requests in flight or just answered, by slot
    NODE_ENV,   \* the environment flag the process was started with
    tasks       \* Task table: sequence of rows, tasks[i].id = i (autoincrement)

vars == <<users, tokens, nextTokenId, now, jar, loggedOut, nreq, reqs, NODE_ENV, tasks>>

----------------------------------------------------------------------------
(* Bounds of the model                                                     *)

NumSlots    == 2      \* requests handled concurrently
MaxRequests == 4      \* requests received in one behaviour
MaxUsers    == 3      \* rows of the User table
MaxSeconds  == 1      \* one-second steps of the clock, all in the first hour
MaxHours    == 1      \* steps of the clock to the start of the next hour
MaxTasks    == 3      \* rows of the Task table

Slots == 1..NumSlots

----------------------------------------------------------------------------
(* Program constants                                                       *)

TokenTtl        == 3600   \* expiresIn: "1h"
MinLen          == 6      \* z.string().trim().min(6)
UNAUTHORIZED    == 4001
VALIDATION_ERROR == 5002
USER_NOT_FOUND  == 1001
USER_ALREADY_EXISTS == 1002
INCORRECT_PASSWORD == 1003
INTERNAL_EXCEPTION == 3001
TOKEN_NOT_FOUND == 6001
SELF_DEMOTION   == 7001
USER_TASK_NOT_FOUND == 1005
UNPROCESSABLE_ENTITY == 2001
MinTitle        == 6      \* title: min(6)
MaxTitle        == 50     \* title: max(50)
MinDescription  == 10     \* description: min(10)
MaxDescription  == 255    \* description: max(255)

----------------------------------------------------------------------------
(* JavaScript values                                                       *)

Null      == [js |-> "null"]
Undefined == [js |-> "undefined"]
Truthy(v) == v # Null /\ v # Undefined

(* Strings that the schemas trim and measure are sequences of characters.  *)
RECURSIVE TrimLeft(_)
TrimLeft(s) == IF s # <<>> /\ Head(s) = " " THEN TrimLeft(Tail(s)) ELSE s

RECURSIVE TrimRight(_)
TrimRight(s) ==
    IF s # <<>> /\ s[Len(s)] = " " THEN TrimRight(SubSeq(s, 1, Len(s) - 1)) ELSE s

Trim(s) == TrimRight(TrimLeft(s))

NameRoot  == <<"S","U","P","E","R"," ","U","S","E","R">>
NameAdmin == <<"a","d","m","i","n","0","1">>
NameNew   == <<"n","e","w","b","i","e">>
NameShort == <<"b","o","b">>
TitleMilk  == <<"b","u","y"," ","m","i","l","k">>
TitleBread == <<" ","b","a","k","e"," ","b","r","e","a","d"," ">>
TitleShort == <<"t","o","d","o"," "," ">>
DescNote   == <<"b","e","f","o","r","e"," ","n","o","o","n">>
DescShort  == <<"s","o","o","n">>
PwGood    == <<"s","e","c","r","e","t">>
PwOther   == <<" ","h","u","n","t","e","r","2">>
PwShort   == <<"p","w"," "," "," "," ">>

EmailRoot  == "root@x.io"
EmailAdmin == "admin@x.io"
EmailNew   == "new@x.io"
WellFormedEmails == {EmailRoot, EmailAdmin, EmailNew}
EmailBad   == "not-an-email"

----------------------------------------------------------------------------
(* bcrypt                                                                  *)

hashSync(plain) == [bcrypt |-> plain]
compareSync(plain, hash) == hash = hashSync(plain)

----------------------------------------------------------------------------
(* jsonwebtoken: the token string is determined by the claims, the second  *)
(* of issue and the signing key.                                           *)

NoCookie == [kind |-> "none"]
Garbage  == [kind |-> "garbage"]

sign(sub, name, role, t) ==
    [kind |-> "jwt", sub |-> sub, name |-> name, role |-> role,
     iat |-> t, exp |-> t + TokenTtl, sig |-> "JWT_SECRET"]

(* A client can re-sign a token it holds only with a key of its own. *)
Tamper(tok) == [tok EXCEPT !.sig = "other"]

(* A verification that does not look at the exp claim. *)
verify_NoExpiry(tok, t) ==
    IF tok.kind # "jwt" THEN "malformed"
    ELSE IF tok.sig # "JWT_SECRET" THEN "signature"
    ELSE "ok"

(* "ok", or the reason jwt.verify throws. *)
verify(tok, t) ==
    IF tok.kind # "jwt" THEN "malformed"
    ELSE IF tok.sig # "JWT_SECRET" THEN "signature"
    ELSE IF t >= tok.exp THEN "expired"
    ELSE "ok"

----------------------------------------------------------------------------
(* Exceptions and the two error paths                                      *)

HttpException(message, errorCode, statusCode, errors) ==
    [message |-> message, errorCode |-> errorCode,
     statusCode |-> statusCode, errors |-> errors]

UnauthorizedException(message, errorCode) ==
    HttpException(message, errorCode, 401, Undefined)

BadRequestException(message, errorCode) ==
    HttpException(message, errorCode, 400, Null)

NotFoundException(message, errorCode) ==
    HttpException(message, errorCode, 404, Null)

ValidationException(issues) ==
    HttpException("Validation failed", VALIDATION_ERROR, 400,
                  [js |-> "array", items |-> issues])

(* The answer of Express's own error handler, which takes over when the    *)
(* application's error middleware throws: a 500 page, not JSON.            *)
finalhandler == [status |-> 500, body |-> [html |-> "Internal Server Error"]]

(* The answer of the fallback mounted after the routers. *)
notFoundFallback ==
    [status |-> 404,
     body |-> [text |-> "Sorry, the requested resource was not found."]]

(* The error express.json() passes to next() for a body that does not      *)
(* parse: it is no HttpException and has none of its fields.               *)
bodyParserError ==
    [js |-> "error", own |-> {"expose", "statusCode", "status", "body", "type"},
     type |-> "entity.parse.failed"]

(* next(error): errorMiddleware writes the response.  For an error without *)
(* _statusCode, res.status(undefined).json() throws and Express answers.   *)
errorMiddleware(error) ==
    IF "statusCode" \notin DOMAIN error THEN finalhandler
    ELSE
    [status |-> error.statusCode,
     body |-> IF Truthy(error.errors)
              THEN [message |-> error.message, errorCode |-> error.errorCode,
                    errors |-> error.errors]
              ELSE [message |-> error.message, errorCode |-> error.errorCode]]

(* An exception thrown inside a wrapped handler: errorHandler writes the   *)
(* response itself; res.json drops a key whose value is undefined.         *)
errorHandler(exception) ==
    [status |-> exception.statusCode,
     body |-> IF exception.errors = Undefined
              THEN [message |-> exception.message,
                    errorCode |-> exception.errorCode]
              ELSE [message |-> exception.message,
                    errorCode |-> exception.errorCode,
                    errors |-> exception.errors]]

----------------------------------------------------------------------------
(* Store queries                                                           *)

UserIds == DOMAIN users

(* db.user.findFirst({ where: { id } }) *)
userByID(id) == IF id \in UserIds THEN users[id] ELSE Null

(* The lookup without the delete predicate. *)
isExists_IncludingDeleted(email) ==
    LET hit == {i \in UserIds : users[i].email = email}
    IN  IF hit = {} THEN Null ELSE users[CHOOSE i \in hit : TRUE]

(* db.user.findFirst({ where: { email, delete: false } }): the rows that   *)
(* match; the email column is unique, so there is at most one.             *)
isExists(email) ==
    LET hit == {i \in UserIds : users[i].email = email /\ ~users[i].delete}
    IN  IF hit = {} THEN Null ELSE users[CHOOSE i \in hit : TRUE]

(* The lookup without the key predicate: any active session of the user.  *)
findActiveToken_AnyKey(userId, key) ==
    {t \in tokens : t.userId = userId /\ t.active}

(* db.token.findFirst({ where: { userId, key, active: true } }): every row *)
(* the predicate matches; findFirst returns one of them.                   *)
findActiveToken(userId, key) ==
    {t \in tokens : t.userId = userId /\ t.key = key /\ t.active}

----------------------------------------------------------------------------
(* Schemas                                                                 *)

Has(body, f) == f \in DOMAIN body

IsEmail(e) == e \in WellFormedEmails

(* singUpSchema.parse: the issues it raises, in field order. *)
singUpIssues(body) ==
    (IF Has(body, "name") /\ Len(Trim(body.name)) >= MinLen THEN <<>>
     ELSE << [field |-> "name", message |-> "Name must be at least 6 characters"] >>)
    \o
    (IF Has(body, "email") /\ IsEmail(body.email) THEN <<>>
     ELSE << [field |-> "email", message |-> "Invalid email"] >>)
    \o
    (IF Has(body, "password") /\ Len(Trim(body.password)) >= MinLen THEN <<>>
     ELSE << [field |-> "password",
              message |-> "Password must be at least 6 characters"] >>)

(* singUpSchema.parse: the parsed data; keys the schema does not declare   *)
(* (role among them) are stripped.                                         *)
singUpData(body) ==
    [name |-> Trim(body.name), email |-> body.email,
     password |-> Trim(body.password)]

(* updateSchema.parse: every field is optional. *)
updateIssues(body) ==
    (IF ~Has(body, "name") \/ Len(Trim(body.name)) >= MinLen THEN <<>>
     ELSE << [field |-> "name", message |-> "Name must be at least 6 characters"] >>)
    \o
    (IF ~Has(body, "email") \/ IsEmail(body.email) THEN <<>>
     ELSE << [field |-> "email", message |-> "Invalid email address"] >>)
    \o
    (IF ~Has(body, "password") \/ Len(Trim(body.password)) >= MinLen THEN <<>>
     ELSE << [field |-> "password",
              message |-> "Password must be at least 6 characters"] >>)
    \o
    (IF ~Has(body, "role") \/ body.role \in {"USER", "ADMIN"} THEN <<>>
     ELSE << [field |-> "role", message |-> "Invalid option"] >>)

updateData(body) ==
    [f \in DOMAIN body \cap {"name", "email", "password", "role"} |->
        IF f \in {"name", "password"} THEN Trim(body[f]) ELSE body[f]]

----------------------------------------------------------------------------
(* Requests                                                                *)

NoBody == [none |-> TRUE]

(* req.path below the router's mount point, as its segments, and           *)
(* req.query.                                                              *)
Url(path, query) == [path |-> path, query |-> query]
NoQuery == [none |-> TRUE]
NoUrl == Url(<<>>, NoQuery)

(* The context of a request: what it carries (route, cookie, :id, body),   *)
(* req.user and req.token, the handler's locals, the response and the      *)
(* Set-Cookie it sends, and the history of the stages that ran for it      *)
(* (trace) and of its cookie (stale: a logout had deleted the cookie's     *)
(* record when the request arrived).                                       *)
Idle == [route |-> "none", pc |-> "idle", cookie |-> NoCookie, target |-> 0,
         url |-> NoUrl, body |-> NoBody, user |-> Null, token |-> Null, resp |-> Null,
         setCookie |-> Null, trace |-> <<>>, local |-> Null, stale |-> FALSE,
         sent |-> 0]

(* The routes of taskRouter, by handler. *)
TaskRoutes == {"taskCreate", "taskList", "taskFindOne", "taskFilter",
               "taskUpdate", "taskComplete", "taskDelete"}

(* The route table with the admin gate left off PATCH /:id. *)
Middlewares_UpdateUngated(route) ==
    CASE route = "signup"         -> <<>>
      [] route = "login"          -> <<>>
      [] route = "logout"         -> <<"authMiddleware">>
      [] route = "userList"       -> <<"authMiddleware", "isAdminMiddleware">>
      [] route = "userFindOne"    -> <<"authMiddleware", "isAdminMiddleware">>
      [] route = "userFilter"     -> <<"authMiddleware", "isAdminMiddleware">>
      [] route = "userUpdate"     -> <<"authMiddleware">>
      [] route = "userSoftDelete" -> <<"authMiddleware", "isAdminMiddleware">>
      [] route \in TaskRoutes     -> <<"authMiddleware">>

(* The middleware each route declares before its handler. *)
Middlewares(route) ==
    CASE route = "signup"         -> <<>>
      [] route = "login"          -> <<>>
      [] route = "logout"         -> <<"authMiddleware">>
      [] route = "userList"       -> <<"authMiddleware", "isAdminMiddleware">>
      [] route = "userFindOne"    -> <<"authMiddleware", "isAdminMiddleware">>
      [] route = "userFilter"     -> <<"authMiddleware", "isAdminMiddleware">>
      [] route = "userUpdate"     -> <<"authMiddleware", "isAdminMiddleware">>
      [] route = "userSoftDelete" -> <<"authMiddleware", "isAdminMiddleware">>
      [] route \in TaskRoutes     -> <<"authMiddleware">>

Uses(route, mw) == \E i \in DOMAIN Middlewares(route) : Middlewares(route)[i] = mw

Stage(name, ok, why) == [stage |-> name, ok |-> ok, why |-> why]

(* A response written by the handler itself; sent counts the responses    *)
(* written for the request.                                                *)
Respond(r, status, body) ==
    [r EXCEPT !.pc = "done", !.resp = [status |-> status, body |-> body],
              !.sent = @ + 1]

(* res.headersSent *)
headersSent(r) == r.sent > 0

(* An error middleware that answers whatever was sent before. *)
errorMiddlewareAnswers_Always(r) == TRUE

(* errorMiddleware answers unless a response was already sent; it then     *)
(* hands the error on, and Express's final handler writes nothing either.  *)
errorMiddlewareAnswers(r) == ~headersSent(r)

(* next(error) from a middleware or a handler: no later stage of the route *)
(* runs, errorMiddleware answers.                                          *)
NextError(r, error) ==
    IF errorMiddlewareAnswers(r)
    THEN [r EXCEPT !.pc = "done", !.resp = errorMiddleware(error),
                   !.sent = @ + 1,
                   !.trace = Append(@, Stage("errorMiddleware", TRUE, ""))]
    ELSE [r EXCEPT !.pc = "done"]

(* An exception thrown in a handler wrapped by errorHandler: errorHandler  *)
(* writes the response, then calls next(exception).                        *)
Thrown(r, exception) ==
    LET w == [r EXCEPT !.pc = "done", !.resp = errorHandler(exception),
                       !.sent = @ + 1,
                       !.trace = Append(@, Stage("errorHandler", TRUE, ""))]
    IN  IF errorMiddlewareAnswers(w)
        THEN [w EXCEPT !.resp = errorMiddleware(exception), !.sent = @ + 1]
        ELSE w

(* The errors a handler can meet that are not HttpExceptions, with the own  *)
(* enumerable properties res.json serialises: a Prisma request error       *)
(* carries its code and meta, a plain Error has none (message and stack    *)
(* are not enumerable).                                                    *)
PrismaError(code) ==
    [js |-> "error", own |-> {"name", "code", "clientVersion", "meta"},
     code |-> code]

PlainError(message) == [js |-> "error", own |-> {}, message |-> message]

(* new InternalException("Something went wrong!", err, INTERNAL_EXCEPTION) *)
InternalException(err) ==
    HttpException("Something went wrong!", INTERNAL_EXCEPTION, 500, err)

(* A failure that tells an expired token from the other modes. *)
AuthFailure_TellsExpired(why) ==
    UnauthorizedException(IF why = "expired" THEN "Token expired"
                          ELSE "Unauthorized", UNAUTHORIZED)

(* The failure authMiddleware passes to next() in each failure mode. *)
AuthFailure(why) == UnauthorizedException("Unauthorized", UNAUTHORIZED)

(* createTaskSchema.parse / updateTaskSchema.parse: the issues raised, in  *)
(* field order; the title is required on create only.                      *)
taskIssues(body, titleRequired) ==
    (IF ~Has(body, "title")
     THEN IF titleRequired
          THEN << [field |-> "title", message |-> "Invalid input: expected string, received undefined"] >> ELSE <<>>
     ELSE IF Len(Trim(body.title)) < MinTitle
          THEN << [field |-> "title",
                   message |-> "Title must be at least 6 character"] >>
     ELSE IF Len(Trim(body.title)) > MaxTitle
          THEN << [field |-> "title",
                   message |-> "Title should not contain more than 50 characters"] >>
     ELSE <<>>)
    \o
    (IF ~Has(body, "description") THEN <<>>
     ELSE IF Len(Trim(body.description)) < MinDescription
          THEN << [field |-> "description",
                   message |-> "Description must be at least 10 character"] >>
     ELSE IF Len(Trim(body.description)) > MaxDescription
          THEN << [field |-> "description",
                   message |-> "Description should not contain more than 255 characters"] >>
     ELSE <<>>)

(* The parsed data: the declared keys, trimmed. *)
taskData(body) ==
    [f \in DOMAIN body \cap {"title", "description"} |-> Trim(body[f])]

(* The handler's code up to its first store call. *)
HandlerEnter(r0) ==
    LET r == [r0 EXCEPT !.trace = Append(@, Stage("handler", TRUE, ""))]
    IN  CASE r.route = "signup" ->
               IF singUpIssues(r.body) # <<>>
               THEN Thrown(r, ValidationException(singUpIssues(r.body)))
               ELSE [r EXCEPT !.pc = "signupIsExists",
                              !.local = singUpData(r.body)]
          [] r.route = "login"          -> [r EXCEPT !.pc = "loginIsExists"]
          [] r.route = "logout"         -> [r EXCEPT !.pc = "logoutDelete"]
          [] r.route = "userList"       -> [r EXCEPT !.pc = "userListQuery"]
          [] r.route = "userFindOne"    -> [r EXCEPT !.pc = "userFindOneQuery"]
          [] r.route = "userFilter"     -> [r EXCEPT !.pc = "userFilterQuery"]
          [] r.route = "userUpdate"     -> [r EXCEPT !.pc = "updateFind"]
          [] r.route = "userSoftDelete" -> [r EXCEPT !.pc = "softDeleteFind"]
          [] r.route = "taskCreate" ->
               IF taskIssues(r.body, TRUE) # <<>>
               THEN Thrown(r, ValidationException(taskIssues(r.body, TRUE)))
               ELSE [r EXCEPT !.pc = "taskCreate", !.local = taskData(r.body)]
          [] r.route = "taskList"     -> [r EXCEPT !.pc = "taskListQuery"]
          [] r.route = "taskFindOne"  -> [r EXCEPT !.pc = "taskFindOneQuery"]
          [] r.route = "taskFilter"   -> [r EXCEPT !.pc = "taskFilterQuery"]
          [] r.route = "taskUpdate"   -> [r EXCEPT !.pc = "taskUpdateFind"]
          [] r.route = "taskComplete" -> [r EXCEPT !.pc = "taskCompleteFind"]
          [] r.route = "taskDelete"   -> [r EXCEPT !.pc = "taskDeleteFind"]

(* A gate that reads ROOT as at least ADMIN. *)
isAdminMiddleware_RootPasses(r) ==
    IF r.user.role \notin {"ADMIN", "ROOT"}
    THEN NextError([r EXCEPT !.trace = Append(@, Stage("isAdmin", FALSE, "role"))],
                   UnauthorizedException("Access Denied. Admins only", UNAUTHORIZED))
    ELSE HandlerEnter([r EXCEPT !.trace = Append(@, Stage("isAdmin", TRUE, ""))])

(* isAdminMiddleware, then the handler. *)
isAdminMiddleware(r) ==
    IF r.user.role # "ADMIN"
    THEN NextError([r EXCEPT !.trace = Append(@, Stage("isAdmin", FALSE, "role"))],
                   UnauthorizedException("Access Denied. Admins only", UNAUTHORIZED))
    ELSE HandlerEnter([r EXCEPT !.trace = Append(@, Stage("isAdmin", TRUE, ""))])

(* What follows a successful authMiddleware on the route. *)
AfterAuth(r) ==
    IF Uses(r.route, "isAdminMiddleware") THEN isAdminMiddleware(r)
    ELSE HandlerEnter(r)

(* authMiddleware up to its store call: the cookie check and jwt.verify. *)
authMiddlewareEnter(r) ==
    IF r.cookie = NoCookie
    THEN NextError([r EXCEPT !.trace = Append(@, Stage("cookie", FALSE, "missing"))],
                   AuthFailure("missing"))
    ELSE LET v == verify(r.cookie, now)
             c == [r EXCEPT !.trace = Append(@, Stage("cookie", TRUE, ""))]
         IN  IF v # "ok"
             THEN NextError([c EXCEPT !.trace = Append(@, Stage("verify", FALSE, v))],
                            AuthFailure(v))
             ELSE [c EXCEPT !.pc = "authLookup",
                            !.trace = Append(@, Stage("verify", TRUE, ""))]

(* The route's chain from its first element. *)
Dispatch(r) ==
    IF Uses(r.route, "authMiddleware") THEN authMiddlewareEnter(r)
    ELSE HandlerEnter(r)

Busy(s) == reqs[s].pc \notin {"idle", "done"}

(* A request that has been answered is discarded with its context: its     *)
(* slot is empty from the next step on.                                    *)
Settled == [s \in Slots |-> IF reqs[s].pc = "done" THEN Idle ELSE reqs[s]]

(* A request is taken by the lowest slot that is not busy. *)
Free(s) == ~Busy(s) /\ \A q \in Slots : q < s => Busy(q)

(* The parameters and the body of a request are recorded in its context    *)
(* when the handler first reads them.                                      *)
Receive(s, route, cookie, body) ==
    /\ nreq < MaxRequests
    /\ Free(s)
    /\ nreq' = nreq + 1
    /\ reqs' = [Settled EXCEPT ![s] =
                  Dispatch([Idle EXCEPT !.route = route, !.cookie = cookie,
                                        !.body = body,
                                        !.stale = \E d \in loggedOut :
                                                     d.key = cookie])]
    /\ UNCHANGED <<users, tokens, nextTokenId, now, jar, loggedOut, NODE_ENV, tasks>>

(* A request for a path or method no router declares. *)
RecvUnknownRoute(s) ==
    /\ nreq < MaxRequests
    /\ Free(s)
    /\ nreq' = nreq + 1
    /\ reqs' = [Settled EXCEPT ![s] =
                  [Idle EXCEPT !.route = "unknown", !.pc = "done",
                               !.resp = notFoundFallback, !.sent = 1,
                               !.trace = <<Stage("fallback", TRUE, "")>>]]
    /\ UNCHANGED <<users, tokens, nextTokenId, now, jar, loggedOut, NODE_ENV, tasks>>

(* The routes whose handler reads a JSON body. *)
BodyRoutes == {"signup", "login", "userUpdate"}

(* A request whose body is not JSON: express.json() fails before the       *)
(* router is entered.                                                      *)
RecvMalformedBody(s) ==
    \E route \in BodyRoutes :
        /\ nreq < MaxRequests
        /\ Free(s)
        /\ nreq' = nreq + 1
        /\ reqs' = [Settled EXCEPT ![s] =
                      [Idle EXCEPT !.route = route, !.pc = "done",
                                   !.resp = errorMiddleware(bodyParserError),
                                   !.sent = 1,
                                   !.trace = <<Stage("errorMiddleware", TRUE, "")>>]]
        /\ UNCHANGED <<users, tokens, nextTokenId, now, jar, loggedOut, NODE_ENV, tasks>>

(* The cookies a client can present. *)
Cookies == {NoCookie, Garbage} \cup jar \cup {Tamper(t) : t \in jar}

----------------------------------------------------------------------------
(* authMiddleware: the revocation lookup and what follows it               *)

(* A context token that holds the owning user's id as record id. *)
reqToken_UserId(userToken) == [id |-> userToken.userId, key |-> userToken.key]

(* req.token: the id and the key of the matched record. *)
reqToken(userToken) == [id |-> userToken.id, key |-> userToken.key]

(* A context whose role is the role claim of the token. *)
reqUser_RoleFromToken(userToken, payload) ==
    [id |-> userToken.userId, role |-> payload.role]

(* req.user: the owning user's id, and the role on the user row included   *)
(* with the record, or the token's role claim when that role is empty.     *)
reqUser(userToken, payload) ==
    [id |-> userToken.userId,
     role |-> IF users[userToken.userId].role # ""
              THEN users[userToken.userId].role
              ELSE payload.role]

(* A lookup that, finding no row, returns without calling next. *)
AuthLookup_SilentOnRevoked(s) ==
    LET r == reqs[s]
        found == findActiveToken(r.cookie.sub, r.cookie)
    IN  /\ r.pc = "authLookup"
        /\ IF found = {}
           THEN reqs' = [Settled EXCEPT ![s] = [r EXCEPT !.pc = "authReturned"]]
           ELSE \E userToken \in found :
                  reqs' = [Settled EXCEPT ![s] =
                     AfterAuth([r EXCEPT
                        !.user = reqUser(userToken, r.cookie),
                        !.token = reqToken(userToken),
                        !.trace = Append(@, Stage("lookup", TRUE, ""))])]
        /\ UNCHANGED <<users, tokens, nextTokenId, now, jar, loggedOut, nreq, NODE_ENV, tasks>>

AuthLookup(s) ==
    LET r == reqs[s]
        found == findActiveToken(r.cookie.sub, r.cookie)
    IN  /\ r.pc = "authLookup"
        /\ IF found = {}
           THEN reqs' = [Settled EXCEPT ![s] =
                   NextError([r EXCEPT !.trace =
                                 Append(@, Stage("lookup", FALSE, "revoked"))],
                             AuthFailure("revoked"))]
           ELSE \E userToken \in found :
                  reqs' = [Settled EXCEPT ![s] =
                     AfterAuth([r EXCEPT
                        !.user = reqUser(userToken, r.cookie),
                        !.token = reqToken(userToken),
                        !.trace = Append(@, Stage("lookup", TRUE, ""))])]
        /\ UNCHANGED <<users, tokens, nextTokenId, now, jar, loggedOut, nreq, NODE_ENV, tasks>>

(* Every other variable than the request table is left alone. *)
StoreUnchanged == UNCHANGED <<users, tokens, nextTokenId, now, jar, loggedOut, nreq, NODE_ENV, tasks>>

EmailTaken(email, exceptId) ==
    \E i \in UserIds : i # exceptId /\ users[i].email = email

----------------------------------------------------------------------------
(* POST /auth/signup                                                       *)

SignupBodies ==
    { [name |-> NameNew, email |-> EmailNew, password |-> PwGood],
      [name |-> NameNew, email |-> EmailNew, password |-> PwOther,
       role |-> "ADMIN"],
      [name |-> NameShort, email |-> EmailBad, password |-> PwShort],
      [name |-> NameNew, email |-> EmailRoot, password |-> PwGood] }

(* The emails of the signups in flight that passed the schema.             *)
PendingSignups ==
    {reqs[s].local.email : s \in {q \in Slots : reqs[q].route = "signup" /\ Busy(q)}}

(* The emails for which db.user.create can still insert a row once this    *)
(* body is accepted: the email column is unique, so one row at most for    *)
(* each email no row holds.                                                *)
Insertable(body) ==
    (PendingSignups \cup (IF singUpIssues(body) = <<>> THEN {body.email} ELSE {}))
        \ {users[i].email : i \in UserIds}

RecvSignup(s) ==
    \E body \in SignupBodies :
        /\ Len(users) + Cardinality(Insertable(body)) <= MaxUsers
        /\ Receive(s, "signup", NoCookie, body)

(* service.isExists, then the duplicate check. *)
SignupIsExists(s) ==
    LET r == reqs[s]
        existingUser == isExists(r.local.email)
    IN  /\ r.pc = "signupIsExists"
        /\ reqs' = [Settled EXCEPT ![s] =
              IF existingUser # Null
              THEN NextError(r, BadRequestException("User already exists!",
                                                    USER_ALREADY_EXISTS))
              ELSE [r EXCEPT !.pc = "signupCreate"]]
        /\ StoreUnchanged

(* The role taken from the request body when it carries one. *)
signupRole_FromBody(body) == IF Has(body, "role") THEN body.role ELSE "USER"

(* The role service.create is called with. *)
signupRole(body) == "USER"

(* The body of the 201 answer. *)
signupResponse(user) == [email |-> user.email, role |-> user.role]

(* service.create: db.user.create, then the 201 answer. *)
SignupCreate(s) ==
    LET r == reqs[s]
        row == [id |-> Len(users) + 1, name |-> r.local.name,
                email |-> r.local.email,
                password |-> hashSync(r.local.password),
                role |-> signupRole(r.body), delete |-> FALSE]
    IN  /\ r.pc = "signupCreate"
        /\ IF EmailTaken(r.local.email, 0)
           THEN /\ reqs' = [Settled EXCEPT ![s] = Thrown(r, InternalException(PrismaError("P2002")))]
                /\ users' = users
           ELSE /\ users' = Append(users, row)
                /\ reqs' = [Settled EXCEPT ![s] = Respond(r, 201, signupResponse(row))]
        /\ UNCHANGED <<tokens, nextTokenId, now, jar, loggedOut, nreq, NODE_ENV, tasks>>

----------------------------------------------------------------------------
(* POST /auth/login                                                        *)

(* login reads email and password from the body without a schema. *)
LoginBodies ==
    [email : {EmailRoot, EmailAdmin, EmailNew}, password : {PwGood, PwShort}]
    \cup {[email |-> EmailAdmin]}

RecvLogin(s) == Receive(s, "login", NoCookie, NoBody)

(* service.isExists, compareSync, then jwt.sign inside createToken. *)
LoginIsExists(s) ==
    \E body \in LoginBodies :
    LET r == [reqs[s] EXCEPT !.body = body]
        user == isExists(r.body.email)
    IN  /\ r.pc = "loginIsExists"
        /\ reqs' = [Settled EXCEPT ![s] =
              IF user = Null
              THEN NextError(r, NotFoundException("User does not exists!",
                                                  USER_NOT_FOUND))
              ELSE IF ~Has(r.body, "password")
              THEN Thrown(r, InternalException(
                              PlainError("data and hash arguments required")))
              ELSE IF ~compareSync(r.body.password, user.password)
              THEN NextError(r, BadRequestException("Incorrect password!",
                                                    INCORRECT_PASSWORD))
              ELSE [r EXCEPT !.pc = "loginCreateToken",
                             !.local = [user |-> user,
                                        token |-> sign(user.id, user.name,
                                                       user.role, now)]]]
        /\ StoreUnchanged

(* A row that names the first user as owner, whoever logged in. *)
newTokenRow_OwnedByFirst(id, token, user) ==
    [id |-> id, key |-> token, userId |-> 1, active |-> TRUE]

(* The row inserted with the active flag off. *)
newTokenRow_Inactive(id, token, user) ==
    [id |-> id, key |-> token, userId |-> user.id, active |-> FALSE]

(* The Token row createToken inserts. *)
newTokenRow(id, token, user) ==
    [id |-> id, key |-> token, userId |-> user.id, active |-> TRUE]

(* The cookie login sets. *)
loginCookie(token) ==
    [name |-> "jwt", value |-> token, httpOnly |-> TRUE, sameSite |-> "lax",
     secure |-> FALSE, maxAge |-> 60 * 60 * 1000]

(* db.token.create, res.cookie and the 200 answer. *)
LoginCreateToken(s) ==
    LET r == reqs[s]
        token == r.local.token
    IN  /\ r.pc = "loginCreateToken"
        /\ tokens' = tokens \cup {newTokenRow(nextTokenId, token, r.local.user)}
        /\ nextTokenId' = nextTokenId + 1
        /\ jar' = jar \cup {token}
        /\ reqs' = [Settled EXCEPT ![s] =
              Respond([r EXCEPT !.setCookie = loginCookie(token)], 200,
                      [userID |-> r.local.user.id, message |-> "Login success!"])]
        /\ UNCHANGED <<users, now, loggedOut, nreq, NODE_ENV, tasks>>

----------------------------------------------------------------------------
(* POST /auth/logout                                                       *)

RecvLogout(s) ==
    \E cookie \in Cookies : Receive(s, "logout", cookie, NoBody)

(* A delete that removes every session of the record's user. *)
deleteToken_AllOfUser(token, id) ==
    {t \in tokens : \E m \in tokens : m.id = id /\ m.key = token
                                       /\ t.userId = m.userId}

(* A delete that matches on the token string alone. *)
deleteToken_ByKey(token, id) == {t \in tokens : t.key = token /\ t.active}

(* The rows db.token.delete({ where: { id, key, active: true } }) matches. *)
deleteToken(token, id) ==
    {t \in tokens : t.id = id /\ t.key = token /\ t.active}

(* The cookie logout clears, with the options of res.clearCookie. *)
logoutCookie ==
    [name |-> "jwt", cleared |-> TRUE, httpOnly |-> TRUE, sameSite |-> "lax",
     secure |-> (NODE_ENV = "production")]

(* service.deleteToken: the delete throws when no row matches. *)
(* A revocation that keeps the rows and turns their active flag off. *)
tokensAfterDelete_Deactivated(hit) ==
    (tokens \ hit) \cup {[row EXCEPT !.active = FALSE] : row \in hit}

(* The Token table after db.token.delete has removed the rows it matched. *)
tokensAfterDelete(hit) == tokens \ hit

LogoutDelete(s) ==
    LET r == reqs[s]
        hit == deleteToken(r.token.key, r.token.id)
    IN  /\ r.pc = "logoutDelete"
        /\ IF hit = {}
           THEN /\ reqs' = [Settled EXCEPT ![s] = Thrown(r, InternalException(PrismaError("P2025")))]
                /\ UNCHANGED <<tokens, loggedOut>>
           ELSE /\ tokens' = tokensAfterDelete(hit)
                /\ loggedOut' = loggedOut \cup hit
                /\ reqs' = [Settled EXCEPT ![s] =
                      Respond([r EXCEPT !.setCookie = logoutCookie], 201,
                              [userId |-> (CHOOSE t \in hit : TRUE).userId,
                               message |-> "Logout success"])]
        /\ UNCHANGED <<users, nextTokenId, now, jar, nreq, NODE_ENV, tasks>>

----------------------------------------------------------------------------
(* GET /protected/user/                                                    *)

RecvUserList(s) ==
    \E cookie \in Cookies : Receive(s, "userList", cookie, NoBody)

UserListQuery(s) ==
    LET r == reqs[s]
    IN  /\ r.pc = "userListQuery"
        /\ reqs' = [Settled EXCEPT ![s] = Respond(r, 200, [list |-> users])]
        /\ StoreUnchanged

----------------------------------------------------------------------------
(* userRouter: GET /, GET /:id, GET /user                                  *)

(* The routes of userRouter in the order they are declared. *)
userRouter ==
    << [method |-> "GET",    path |-> <<>>,       handler |-> "userList"],
       [method |-> "GET",    path |-> <<":id">>,  handler |-> "userFindOne"],
       [method |-> "GET",    path |-> <<"user">>, handler |-> "userFilter"],
       [method |-> "PATCH",  path |-> <<":id">>,  handler |-> "userUpdate"],
       [method |-> "DELETE", path |-> <<":id">>,  handler |-> "userSoftDelete"] >>

(* A route's pattern matches a path: a named parameter takes any segment. *)
PathMatches(pattern, path) ==
    /\ Len(pattern) = Len(path)
    /\ \A i \in DOMAIN pattern : pattern[i] = ":id" \/ pattern[i] = path[i]

(* Express runs the first declared route that matches. *)
userRouterMatch(method, path) ==
    LET hits == {i \in DOMAIN userRouter :
                   /\ userRouter[i].method = method
                   /\ PathMatches(userRouter[i].path, path)}
    IN  IF hits = {} THEN "unknown"
        ELSE userRouter[CHOOSE i \in hits : \A j \in hits : i <= j].handler

(* A JavaScript number: an integer, or NaN. *)
Num(n) == [js |-> "number", n |-> n]
NaN == [js |-> "NaN"]

(* Number(string) on a path segment. *)
Number(str) ==
    CASE str = "1" -> Num(1)
      [] str = "2" -> Num(2)
      [] str = "3" -> Num(3)
      [] OTHER -> NaN

(* The GET requests sent to the router. *)
UserGetUrls ==
    { Url(<<>>, NoQuery),
      Url(<<"2">>, NoQuery),
      Url(<<"3">>, NoQuery),
      Url(<<"user">>, [deleted |-> "true"]),
      Url(<<"user">>, [deleted |-> "false"]) }

RecvUserGet(s) ==
    \E cookie \in {NoCookie} \cup jar, url \in UserGetUrls :
        /\ nreq < MaxRequests
        /\ Free(s)
        /\ nreq' = nreq + 1
        /\ reqs' = [Settled EXCEPT ![s] =
                      Dispatch([Idle EXCEPT
                                  !.route = userRouterMatch("GET", url.path),
                                  !.cookie = cookie, !.url = url,
                                  !.stale = \E d \in loggedOut : d.key = cookie])]
        /\ UNCHANGED <<users, tokens, nextTokenId, now, jar, loggedOut, NODE_ENV, tasks>>

(* db.user.findMany({ where: { delete: isDelete } }) *)
userFilterList(isDelete) ==
    {users[i] : i \in {j \in UserIds : users[j].delete = isDelete}}

(* What listFiler answers. *)
listFiler(r) ==
    Respond(r, 200, [list |-> userFilterList(r.url.query.deleted = "true")])

(* What db.user.findFirst({ where: { id } }) can give: the row or null for *)
(* a number; for NaN the call is either rejected by the client's argument  *)
(* validation or finds no row.                                             *)
userByIDResults(id) ==
    IF id = NaN THEN {Null, PrismaError("validation")} ELSE {userByID(id.n)}

(* findOne: the :id segment through Number(), then service.userByID. *)
UserFindOneQuery(s) ==
    LET r == reqs[s]
    IN  /\ r.pc = "userFindOneQuery"
        /\ \E user \in userByIDResults(Number(r.url.path[1])) :
              reqs' = [Settled EXCEPT ![s] =
                 IF user = Null
                 THEN NextError(r, NotFoundException("User not found",
                                                     USER_NOT_FOUND))
                 ELSE IF user = PrismaError("validation")
                 THEN Thrown(r, InternalException(user))
                 ELSE Respond(r, 200, user)]
        /\ StoreUnchanged

----------------------------------------------------------------------------
(* PATCH /protected/user/:id                                               *)

UpdateBodies ==
    { [role |-> "USER"],
      [role |-> "ADMIN"],
      [name |-> NameNew, role |-> "USER"],
      [name |-> NameShort, role |-> "USER"],
      [password |-> PwOther],
      [email |-> EmailAdmin] }

Targets == 1..MaxUsers

RecvUserUpdate(s) ==
    \E cookie \in Cookies : Receive(s, "userUpdate", cookie, NoBody)

(* The guard with the id comparison inverted. *)
selfDemotion_Inverted(userId, targetId, data) ==
    userId # targetId /\ Has(data, "role") /\ data.role # "ADMIN"

(* The self-demotion guard of update. *)
selfDemotion(userId, targetId, data) ==
    userId = targetId /\ Has(data, "role") /\ data.role # "ADMIN"

(* updatedUserData: the row read, overlaid with the fields of the payload. *)
updatedUserData(existingUser, data) ==
    [existingUser EXCEPT
        !.name = IF Has(data, "name") THEN data.name ELSE @,
        !.email = IF Has(data, "email") THEN data.email ELSE @,
        !.role = IF Has(data, "role") THEN data.role ELSE @,
        !.password = IF Has(data, "password") THEN hashSync(data.password) ELSE @]

(* service.userByID, updateSchema.parse, the self-demotion guard. *)
UpdateFind(s) ==
    \E id \in Targets, body \in UpdateBodies :
    LET r == [reqs[s] EXCEPT !.target = id, !.body = body]
        existingUser == userByID(r.target)
        data == updateData(r.body)
    IN  /\ r.pc = "updateFind"
        /\ reqs' = [Settled EXCEPT ![s] =
              IF existingUser = Null
              THEN NextError(r, NotFoundException("User not found", USER_NOT_FOUND))
              ELSE IF updateIssues(r.body) # <<>>
              THEN Thrown(r, ValidationException(updateIssues(r.body)))
              ELSE IF selfDemotion(r.user.id, r.target, data)
              THEN NextError(r, BadRequestException("You cannot demote yourself",
                                                    SELF_DEMOTION))
              ELSE [r EXCEPT !.pc = "updateWrite",
                             !.local = updatedUserData(existingUser, data)]]
        /\ StoreUnchanged

(* service.userUpdate: writes name, email, password and role of the row. *)
UpdateWrite(s) ==
    LET r == reqs[s]
        u == r.local
        row == [users[u.id] EXCEPT !.name = u.name, !.email = u.email,
                                   !.password = u.password, !.role = u.role]
    IN  /\ r.pc = "updateWrite"
        /\ IF EmailTaken(u.email, u.id)
           THEN /\ reqs' = [Settled EXCEPT ![s] = Thrown(r, InternalException(PrismaError("P2002")))]
                /\ users' = users
           ELSE /\ users' = [users EXCEPT ![u.id] = row]
                /\ reqs' = [Settled EXCEPT ![s] =
                      Respond(r, 200, [message |-> "User updated", user |-> row])]
        /\ UNCHANGED <<tokens, nextTokenId, now, jar, loggedOut, nreq, NODE_ENV, tasks>>

----------------------------------------------------------------------------
(* DELETE /protected/user/:id                                              *)

RecvUserSoftDelete(s) ==
    \E cookie \in Cookies : Receive(s, "userSoftDelete", cookie, NoBody)

(* The guard with the comparison inverted. *)
selfDeletion_Inverted(userId, targetId) == userId # targetId

(* A guard that fires whoever the target is. *)
selfDeletion_Always(userId, targetId) == TRUE

(* The self-deletion guard of softDelete. *)
selfDeletion(userId, targetId) == userId = targetId

(* service.userByID and the self-deletion guard. *)
SoftDeleteFind(s) ==
    \E id \in Targets :
    LET r == [reqs[s] EXCEPT !.target = id]
        existingUser == userByID(r.target)
    IN  /\ r.pc = "softDeleteFind"
        /\ reqs' = [Settled EXCEPT ![s] =
              IF existingUser = Null
              THEN NextError(r, NotFoundException("User not found", USER_NOT_FOUND))
              ELSE IF selfDeletion(r.user.id, r.target)
              THEN NextError(r, BadRequestException("You cannot delete yourself",
                                                    SELF_DEMOTION))
              ELSE [r EXCEPT !.pc = "softDeleteWrite"]]
        /\ StoreUnchanged

(* A soft-delete that also removes the sessions of the user. *)
sessionsAfterSoftDelete_Revoked(id) == {t \in tokens : t.userId # id}

(* The Token table after service.userSoftDelete, which writes the User     *)
(* table only.                                                             *)
sessionsAfterSoftDelete(id) == tokens

(* service.userSoftDelete: sets the delete flag of the row. *)
SoftDeleteWrite(s) ==
    LET r == reqs[s]
        row == [users[r.target] EXCEPT !.delete = TRUE]
    IN  /\ r.pc = "softDeleteWrite"
        /\ users' = [users EXCEPT ![r.target] = row]
        /\ tokens' = sessionsAfterSoftDelete(r.target)
        /\ reqs' = [Settled EXCEPT ![s] =
              Respond(r, 200, [message |-> "User deleted", user |-> row])]
        /\ UNCHANGED <<nextTokenId, now, jar, loggedOut, nreq, NODE_ENV, tasks>>

----------------------------------------------------------------------------
(* /protected/task                                                         *)

TaskIds == DOMAIN tasks

(* The lookup with no owner predicate. *)
findTaskById_AnyOwner(idUser, id) ==
    IF id \in TaskIds /\ ~tasks[id].delete THEN tasks[id] ELSE Null

(* db.task.findFirst({ where: { id, userId, delete: false } }) *)
findTaskById(idUser, id) ==
    IF id \in TaskIds /\ tasks[id].userId = idUser /\ ~tasks[id].delete
    THEN tasks[id] ELSE Null

(* db.task.findMany({ where: { userId, delete: false } }) *)
findTasksByUser(idUser) ==
    {tasks[i] : i \in {j \in TaskIds : tasks[j].userId = idUser /\ ~tasks[j].delete}}

(* db.task.findMany({ where: { userId, completed, delete: false } }) *)
listTaskCompleted(isCompleted, userId) ==
    {row \in findTasksByUser(userId) : row.completed = isCompleted}

(* Every change to the Task table leaves the rest of the store alone. *)
TaskStoreOnly ==
    UNCHANGED <<users, tokens, nextTokenId, now, jar, loggedOut, nreq, NODE_ENV>>

TaskTargets == 1..MaxTasks

(* The cookies a task request arrives with: none, or one a login issued. *)
SessionCookies == {NoCookie} \cup jar

CreateTaskBodies ==
    { [title |-> TitleBread, description |-> DescNote],
      [title |-> TitleShort],
      [description |-> DescNote] }

UpdateTaskBodies ==
    { [title |-> TitleBread],
      [title |-> TitleMilk, description |-> DescShort] }

(* Rows that creates in flight may still insert. *)
PendingCreates ==
    Cardinality({s \in Slots : reqs[s].route = "taskCreate" /\ Busy(s)})

(* POST / *)
RecvTaskCreate(s) ==
    /\ Len(tasks) + PendingCreates < MaxTasks
    /\ \E cookie \in SessionCookies, body \in CreateTaskBodies :
          Receive(s, "taskCreate", cookie, body)

(* service.createTask and the 201 answer. *)
TaskCreate(s) ==
    LET r == reqs[s]
        newTask == [id |-> Len(tasks) + 1, title |-> r.local.title,
                    description |-> IF Has(r.local, "description")
                                    THEN r.local.description ELSE Null,
                    completed |-> FALSE, delete |-> FALSE,
                    userId |-> r.user.id]
    IN  /\ r.pc = "taskCreate"
        /\ tasks' = Append(tasks, newTask)
        /\ reqs' = [Settled EXCEPT ![s] =
              Respond(r, 201, [success |-> TRUE, data |-> newTask])]
        /\ TaskStoreOnly

(* GET / *)
RecvTaskList(s) ==
    \E cookie \in SessionCookies : Receive(s, "taskList", cookie, NoBody)

TaskListQuery(s) ==
    LET r == reqs[s]
    IN  /\ r.pc = "taskListQuery"
        /\ reqs' = [Settled EXCEPT ![s] =
              Respond(r, 200, [success |-> TRUE,
                               data |-> findTasksByUser(r.user.id)])]
        /\ UNCHANGED tasks /\ TaskStoreOnly

(* GET /task?completed= *)
RecvTaskFilter(s) ==
    \E cookie \in SessionCookies : Receive(s, "taskFilter", cookie, NoBody)

TaskFilterQuery(s) ==
    \E completed \in BOOLEAN :
    LET r == [reqs[s] EXCEPT !.local = [completed |-> completed]]
    IN  /\ r.pc = "taskFilterQuery"
        /\ reqs' = [Settled EXCEPT ![s] =
              Respond(r, 200, [success |-> TRUE,
                               data |-> listTaskCompleted(completed, r.user.id)])]
        /\ UNCHANGED tasks /\ TaskStoreOnly

(* What every handler that names a task answers when the lookup is empty. *)
TaskNotFound(r) ==
    NextError(r, NotFoundException("Task does not exists!", USER_TASK_NOT_FOUND))

(* GET /:id *)
RecvTaskFindOne(s) ==
    \E cookie \in SessionCookies : Receive(s, "taskFindOne", cookie, NoBody)

TaskFindOneQuery(s) ==
    \E id \in TaskTargets :
    LET r == [reqs[s] EXCEPT !.target = id]
        isTaskExists == findTaskById(r.user.id, r.target)
    IN  /\ r.pc = "taskFindOneQuery"
        /\ reqs' = [Settled EXCEPT ![s] =
              IF isTaskExists = Null THEN TaskNotFound(r)
              ELSE Respond(r, 200, [success |-> TRUE, data |-> isTaskExists])]
        /\ UNCHANGED tasks /\ TaskStoreOnly

(* PATCH /:id *)
RecvTaskUpdate(s) ==
    \E cookie \in SessionCookies : Receive(s, "taskUpdate", cookie, NoBody)

(* service.findTaskById, updateTaskSchema.parse, the row to write. *)
TaskUpdateFind(s) ==
    \E id \in TaskTargets, body \in UpdateTaskBodies :
    LET r == [reqs[s] EXCEPT !.target = id, !.body = body]
        isTaskExists == findTaskById(r.user.id, r.target)
        data == taskData(r.body)
    IN  /\ r.pc = "taskUpdateFind"
        /\ reqs' = [Settled EXCEPT ![s] =
              IF isTaskExists = Null THEN TaskNotFound(r)
              ELSE IF taskIssues(r.body, FALSE) # <<>>
              THEN Thrown(r, ValidationException(taskIssues(r.body, FALSE)))
              ELSE [r EXCEPT !.pc = "taskUpdateWrite",
                      !.local = [isTaskExists EXCEPT
                         !.title = IF Has(data, "title") THEN data.title ELSE @,
                         !.description = IF Has(data, "description")
                                         THEN data.description ELSE @]]]
        /\ UNCHANGED tasks /\ TaskStoreOnly

(* service.updateTask: db.task.update({ where: { id, userId },              *)
(* data: { ...task } }) writes every column of the row the handler read.   *)
updateTask(task) == [tasks EXCEPT ![task.id] = task]

TaskUpdateWrite(s) ==
    LET r == reqs[s]
    IN  /\ r.pc = "taskUpdateWrite"
        /\ tasks' = updateTask(r.local)
        /\ reqs' = [Settled EXCEPT ![s] =
              Respond(r, 201, [success |-> TRUE, data |-> tasks'[r.local.id]])]
        /\ TaskStoreOnly

(* PATCH /:id/complete *)
RecvTaskComplete(s) ==
    \E cookie \in SessionCookies : Receive(s, "taskComplete", cookie, NoBody)

TaskCompleteFind(s) ==
    \E id \in TaskTargets :
    LET r == [reqs[s] EXCEPT !.target = id]
    IN  /\ r.pc = "taskCompleteFind"
        /\ reqs' = [Settled EXCEPT ![s] =
              IF findTaskById(r.user.id, r.target) = Null THEN TaskNotFound(r)
              ELSE [r EXCEPT !.pc = "taskCompleteWrite"]]
        /\ UNCHANGED tasks /\ TaskStoreOnly

(* service.completedTask: updateMany({ where: { id, userId, delete: false } *)
(* }): the ids it matches.                                                 *)
completedTask(userId, id) ==
    {i \in TaskIds : i = id /\ tasks[i].userId = userId /\ ~tasks[i].delete}

TaskCompleteWrite(s) ==
    LET r == reqs[s]
        hit == completedTask(r.user.id, r.target)
    IN  /\ r.pc = "taskCompleteWrite"
        /\ tasks' = [i \in TaskIds |->
                        IF i \in hit THEN [tasks[i] EXCEPT !.completed = TRUE]
                        ELSE tasks[i]]
        /\ reqs' = [Settled EXCEPT ![s] =
              IF hit = {}
              THEN NextError(r, BadRequestException("Task was not completed",
                                                    UNPROCESSABLE_ENTITY))
              ELSE Respond(r, 201, [success |-> TRUE,
                                    message |-> "Task has been completed"])]
        /\ TaskStoreOnly

(* DELETE /:id *)
RecvTaskDelete(s) ==
    \E cookie \in SessionCookies : Receive(s, "taskDelete", cookie, NoBody)

TaskDeleteFind(s) ==
    \E id \in TaskTargets :
    LET r == [reqs[s] EXCEPT !.target = id]
    IN  /\ r.pc = "taskDeleteFind"
        /\ reqs' = [Settled EXCEPT ![s] =
              IF findTaskById(r.user.id, r.target) = Null THEN TaskNotFound(r)
              ELSE [r EXCEPT !.pc = "taskDeleteWrite"]]
        /\ UNCHANGED tasks /\ TaskStoreOnly

(* service.softDelete: db.task.update({ where: { id, userId },              *)
(* data: { delete: true } })                                               *)
TaskDeleteWrite(s) ==
    LET r == reqs[s]
    IN  /\ r.pc = "taskDeleteWrite"
        /\ tasks' = [tasks EXCEPT ![r.target].delete = TRUE]
        /\ reqs' = [Settled EXCEPT ![s] =
              Respond(r, 201, [success |-> TRUE,
                               message |-> "Task has been deleted"])]
        /\ TaskStoreOnly

----------------------------------------------------------------------------
(* The system                                                              *)

(* The store after the seed script and the creation of one administrator,  *)
(* no session, no request.                                                 *)
InitStore ==
    /\ users = << [id |-> 1, name |-> NameRoot, email |-> EmailRoot,
                   password |-> hashSync(PwGood), role |-> "ROOT",
                   delete |-> FALSE],
                  [id |-> 2, name |-> NameAdmin, email |-> EmailAdmin,
                   password |-> hashSync(PwGood), role |-> "ADMIN",
                   delete |-> FALSE] >>
    /\ tokens = {}
    /\ nextTokenId = 1
    /\ now = 0
    /\ jar = {}
    /\ loggedOut = {}
    /\ nreq = 0
    /\ reqs = [s \in Slots |-> Idle]
    /\ tasks = <<>>

(* A development deployment. *)
Init == InitStore /\ NODE_ENV = "development"

Tick ==
    /\ \/ now < MaxSeconds /\ now' = now + 1
       \/ now \div TokenTtl < MaxHours
          /\ now' = TokenTtl * ((now \div TokenTtl) + 1)
    /\ reqs' = Settled
    /\ UNCHANGED <<users, tokens, nextTokenId, jar, loggedOut, nreq, NODE_ENV, tasks>>

Next ==
    \/ Tick
    \/ \E s \in Slots :
          \/ RecvSignup(s)
          \/ RecvLogin(s)
          \/ RecvLogout(s)
          \/ RecvUserList(s)
          \/ RecvUserUpdate(s)
          \/ RecvUserSoftDelete(s)
          \/ RecvUnknownRoute(s)
          \/ RecvMalformedBody(s)
          \/ AuthLookup(s)
          \/ SignupIsExists(s)
          \/ SignupCreate(s)
          \/ LoginIsExists(s)
          \/ LoginCreateToken(s)
          \/ LogoutDelete(s)
          \/ UserListQuery(s)
          \/ UpdateFind(s)
          \/ UpdateWrite(s)
          \/ SoftDeleteFind(s)
          \/ SoftDeleteWrite(s)

Spec == Init /\ [][Next]_vars

----------------------------------------------------------------------------
(* The task operations of two users who are logged in                      *)

(* The token a login of row `user` at second 0 issues. *)
SessionToken(user) == sign(user.id, user.name, user.role, 0)

(* The store after root and the administrator have each logged in and      *)
(* created one task.                                                       *)
InitTasks ==
    /\ users = << [id |-> 1, name |-> NameRoot, email |-> EmailRoot,
                   password |-> hashSync(PwGood), role |-> "ROOT",
                   delete |-> FALSE],
                  [id |-> 2, name |-> NameAdmin, email |-> EmailAdmin,
                   password |-> hashSync(PwGood), role |-> "ADMIN",
                   delete |-> FALSE] >>
    /\ tokens = {newTokenRow(i, SessionToken(users[i]), users[i]) : i \in {1, 2}}
    /\ nextTokenId = 3
    /\ now = 0
    /\ jar = {SessionToken(users[i]) : i \in {1, 2}}
    /\ loggedOut = {}
    /\ nreq = 0
    /\ reqs = [s \in Slots |-> Idle]
    /\ NODE_ENV = "development"
    /\ tasks = << [id |-> 1, title |-> TitleMilk, description |-> Null,
                   completed |-> FALSE, delete |-> FALSE, userId |-> 1],
                  [id |-> 2, title |-> TitleMilk, description |-> Null,
                   completed |-> FALSE, delete |-> FALSE, userId |-> 2] >>

NextTasks ==
    \E s \in Slots :
        \/ RecvTaskCreate(s)
        \/ RecvTaskList(s)
        \/ RecvTaskFilter(s)
        \/ RecvTaskFindOne(s)
        \/ RecvTaskUpdate(s)
        \/ RecvTaskComplete(s)
        \/ RecvTaskDelete(s)
        \/ AuthLookup(s)
        \/ TaskCreate(s)
        \/ TaskListQuery(s)
        \/ TaskFilterQuery(s)
        \/ TaskFindOneQuery(s)
        \/ TaskUpdateFind(s)
        \/ TaskUpdateWrite(s)
        \/ TaskCompleteFind(s)
        \/ TaskCompleteWrite(s)
        \/ TaskDeleteFind(s)
        \/ TaskDeleteWrite(s)

SpecTasks == InitTasks /\ [][NextTasks]_vars

----------------------------------------------------------------------------
(* The user administration of two administrators who are logged in         *)

(* The store after the administrator has promoted root and both have       *)
(* logged in.                                                              *)
InitAdmins ==
    /\ users = << [id |-> 1, name |-> NameRoot, email |-> EmailRoot,
                   password |-> hashSync(PwGood), role |-> "ADMIN",
                   delete |-> FALSE],
                  [id |-> 2, name |-> NameAdmin, email |-> EmailAdmin,
                   password |-> hashSync(PwGood), role |-> "ADMIN",
                   delete |-> FALSE] >>
    /\ tokens = {newTokenRow(i, SessionToken(users[i]), users[i]) : i \in {1, 2}}
    /\ nextTokenId = 3
    /\ now = 0
    /\ jar = {SessionToken(users[i]) : i \in {1, 2}}
    /\ loggedOut = {}
    /\ nreq = 0
    /\ reqs = [s \in Slots |-> Idle]
    /\ NODE_ENV = "development"
    /\ tasks = <<>>

NextAdmins ==
    \E s \in Slots :
        \/ RecvUserGet(s)
        \/ RecvUserUpdate(s)
        \/ RecvUserSoftDelete(s)
        \/ AuthLookup(s)
        \/ UserListQuery(s)
        \/ UserFindOneQuery(s)
        \/ UpdateFind(s)
        \/ UpdateWrite(s)
        \/ SoftDeleteFind(s)
        \/ SoftDeleteWrite(s)

SpecAdmins == InitAdmins /\ [][NextAdmins]_vars

----------------------------------------------------------------------------
(* Every operation, for a client that sends one request at a time          *)

(* No request is in flight. *)
Quiet == \A q \in Slots : ~Busy(q)

NextSerial ==
    \E s \in Slots :
        \/ /\ Quiet
           /\ \/ RecvSignup(s)
              \/ RecvLogin(s)
              \/ RecvLogout(s)
              \/ RecvUserList(s)
              \/ RecvUserUpdate(s)
              \/ RecvUserSoftDelete(s)
              \/ RecvTaskCreate(s)
              \/ RecvTaskList(s)
              \/ RecvTaskFilter(s)
              \/ RecvTaskFindOne(s)
              \/ RecvTaskUpdate(s)
              \/ RecvTaskComplete(s)
              \/ RecvTaskDelete(s)
        \/ AuthLookup(s)
        \/ SignupIsExists(s)
        \/ SignupCreate(s)
        \/ LoginIsExists(s)
        \/ LoginCreateToken(s)
        \/ LogoutDelete(s)
        \/ UserListQuery(s)
        \/ UpdateFind(s)
        \/ UpdateWrite(s)
        \/ SoftDeleteFind(s)
        \/ SoftDeleteWrite(s)
        \/ TaskCreate(s)
        \/ TaskListQuery(s)
        \/ TaskFilterQuery(s)
        \/ TaskFindOneQuery(s)
        \/ TaskUpdateFind(s)
        \/ TaskUpdateWrite(s)
        \/ TaskCompleteFind(s)
        \/ TaskCompleteWrite(s)
        \/ TaskDeleteFind(s)
        \/ TaskDeleteWrite(s)

SpecSerial == Init /\ [][NextSerial]_vars

----------------------------------------------------------------------------
(* The session operations on a store that can fail, in either environment  *)

(* A login that sets the cookie before it awaits the row. *)
createTokenRejected_CookieFirst(r, err) ==
    Thrown([r EXCEPT !.setCookie = loginCookie(r.local.token)],
           InternalException(err))

(* login when createToken rejects: the exception leaves the handler at the *)
(* await, before res.cookie and res.status(200).                           *)
createTokenRejected(r, err) == Thrown(r, InternalException(err))

(* The token strings a response delivers in a Set-Cookie header. *)
Delivered(r) ==
    IF r.setCookie # Null /\ "value" \in DOMAIN r.setCookie
    THEN {r.setCookie.value} ELSE {}

(* The request in slot s waits for a store call: it is in flight and not   *)
(* in a middleware that has returned without an answer.                    *)
AwaitsStore(s) == Busy(s) /\ reqs[s].pc # "authReturned"

(* The pending store call of a request rejects (the store is unreachable). *)
(* Inside authMiddleware the rejection lands in its catch block; inside a  *)
(* handler it leaves the handler and errorHandler catches it.              *)
StoreRejects(s) ==
    LET r == reqs[s]
        err == PrismaError("P1001")
    IN  /\ AwaitsStore(s)
        /\ reqs' = [Settled EXCEPT ![s] =
              IF r.pc = "authLookup"
              THEN NextError([r EXCEPT !.trace =
                                 Append(@, Stage("lookup", FALSE, "store"))],
                             AuthFailure("store"))
              ELSE IF r.pc = "loginCreateToken"
              THEN createTokenRejected(r, err)
              ELSE Thrown(r, InternalException(err))]
        /\ jar' = jar \cup Delivered(reqs'[s])
        /\ UNCHANGED <<users, tokens, nextTokenId, now, loggedOut, nreq, NODE_ENV, tasks>>

InitSession == InitStore /\ NODE_ENV \in {"development", "production"}

NextSession ==
    \/ Tick
    \/ \E s \in Slots :
          \/ RecvLogin(s)
          \/ RecvLogout(s)
          \/ RecvUserList(s)
          \/ AuthLookup(s)
          \/ UserListQuery(s)
          \/ LoginIsExists(s)
          \/ LoginCreateToken(s)
          \/ LogoutDelete(s)
          \/ StoreRejects(s)

SpecSession == InitSession /\ [][NextSession]_vars

(* The pending store call of the request in slot s returns, with a result  *)
(* or with a rejection, and the code that awaits it runs.                  *)
StoreReturns(s) ==
    \/ AuthLookup(s)
    \/ UserListQuery(s)
    \/ LoginIsExists(s)
    \/ LoginCreateToken(s)
    \/ LogoutDelete(s)
    \/ StoreRejects(s)

(* The session operations within one second, in development. *)
NextLive ==
    \E s \in Slots :
        \/ RecvLogin(s)
        \/ RecvLogout(s)
        \/ RecvUserList(s)
        \/ StoreReturns(s)

(* The session operations when every store call eventually returns. *)
SpecLive ==
    /\ Init
    /\ [][NextLive]_vars
    /\ \A s \in Slots : WF_vars(StoreReturns(s))

----------------------------------------------------------------------------
(* Vocabulary of the properties                                            *)

(* The stage named `name` ran for request r. *)
Ran(r, name) == \E i \in DOMAIN r.trace : r.trace[i].stage = name

(* authMiddleware failed request r (in the mode `why`). *)
AuthFailedAs(r, why) ==
    \E i \in DOMAIN r.trace :
        /\ r.trace[i].stage \in {"cookie", "verify", "lookup"}
        /\ ~r.trace[i].ok
        /\ r.trace[i].why = why

AuthModes == {"missing", "malformed", "signature", "expired", "revoked"}

AuthFailed(r) == \E why \in AuthModes : AuthFailedAs(r, why)

(* authMiddleware passed request r: it attached req.user. *)
AuthPassed(r) == r.user # Null

(* Slot s takes a step from the pending store call `pc`. *)
Steps(s, pc) == reqs[s].pc = pc /\ reqs'[s] # reqs[s]

(* Routes mounted behind the admin gate, and behind authentication. *)
AdminRoutes == {"userList", "userUpdate", "userSoftDelete"}
ProtectedRoutes == AdminRoutes \cup {"logout"}

----------------------------------------------------------------------------
(* C1: a protected request whose cookie is correctly signed and unexpired  *)
(* but has no Token row with userId = sub, key = the cookie string and     *)
(* active = true is answered 401 Unauthorized and its handler is not run.  *)
C1_RevokedTokenRejected ==
    [][\A s \in Slots :
         (/\ Steps(s, "authLookup")
          /\ ~\E t \in tokens : /\ t.userId = reqs[s].cookie.sub
                                /\ t.key = reqs[s].cookie
                                /\ t.active)
         => /\ reqs'[s].pc = "done"
            /\ reqs'[s].resp.status = 401
            /\ reqs'[s].resp.body.message = "Unauthorized"
            /\ ~AuthPassed(reqs'[s])
            /\ ~Ran(reqs'[s], "handler")]_vars

(* A request with a well-signed, unexpired cookie was refused by the       *)
(* revocation lookup after a logout deleted its record.                    *)
C1_Witness ==
    \E s \in Slots :
        /\ reqs[s].pc = "done"
        /\ reqs[s].route \in ProtectedRoutes
        /\ verify(reqs[s].cookie, now) = "ok"
        /\ AuthFailedAs(reqs[s], "revoked")
        /\ reqs[s].stale
        /\ reqs[s].resp.status = 401

(* C2: once a logout has answered 201, every later protected request that  *)
(* presents the same cookie value fails with 401, whatever logins and      *)
(* logouts came before.                                                    *)
C2_LogoutRevokesCookie ==
    \A s \in Slots :
        reqs[s].stale =>
            /\ ~AuthPassed(reqs[s])
            /\ reqs[s].pc = "done" => reqs[s].resp.status = 401

(* C3: a successful login inserts exactly one new Token row, owned by the  *)
(* user who logged in and active, and the jwt cookie carries exactly the   *)
(* key of that row.                                                        *)
C3_LoginInsertsOneRecord ==
    [][\A s \in Slots :
         (/\ Steps(s, "loginCreateToken")
          /\ reqs'[s].resp # Null
          /\ reqs'[s].resp.status = 200)
         => \E row \in tokens' :
              /\ row \notin tokens
              /\ \A t \in tokens : t.id # row.id
              /\ tokens' = tokens \cup {row}
              /\ Cardinality(tokens') = Cardinality(tokens) + 1
              /\ row.userId = reqs'[s].resp.body.userID
              /\ row.userId \in UserIds
              /\ reqs[s].local.user.email = reqs[s].body.email
              /\ reqs[s].local.user.id = row.userId
              /\ row.active
              /\ reqs'[s].setCookie # Null
              /\ reqs'[s].setCookie.name = "jwt"
              /\ reqs'[s].setCookie.value = row.key]_vars

(* A login has just answered 200. *)
C3_Witness ==
    \E s \in Slots :
        /\ reqs[s].route = "login"
        /\ reqs[s].pc = "done"
        /\ reqs[s].resp.status = 200
        /\ \E t \in tokens : t.key = reqs[s].setCookie.value

(* C4: two logins of one user leave two Token rows, each of which lets its *)
(* cookie pass authMiddleware; a login removes or changes no other row,    *)
(* and a successful logout removes the row of its own session only, so the *)
(* other session still passes.                                             *)
C4_SessionsIndependent ==
    [][\A s \in Slots :
         /\ (Steps(s, "loginCreateToken") /\ reqs'[s].resp.status = 200)
               => tokens \subseteq tokens'
         /\ (Steps(s, "logoutDelete") /\ reqs'[s].resp.status = 201)
               => \E t \in tokens :
                     /\ t.id = reqs[s].token.id
                     /\ tokens' = tokens \ {t}
         /\ (/\ Steps(s, "authLookup")
             /\ \E t \in tokens : /\ t.userId = reqs[s].cookie.sub
                                   /\ t.key = reqs[s].cookie
                                   /\ t.active)
               => /\ AuthPassed(reqs'[s])
                  /\ reqs'[s].user.id = reqs[s].cookie.sub
                  /\ \E t \in tokens : /\ t.id = reqs'[s].token.id
                                       /\ t.key = reqs[s].cookie]_vars

(* Two sessions of one user existed together, the later one was logged     *)
(* out, and a request on the earlier one has passed authMiddleware since.  *)
C4_Witness ==
    \E s \in Slots, d \in loggedOut, t \in tokens :
        /\ t.userId = d.userId
        /\ t.id < d.id
        /\ AuthPassed(reqs[s])
        /\ reqs[s].route = "userList"
        /\ reqs[s].token.id = t.id
        /\ nreq = MaxRequests

C6_SelfDemotionAlwaysRejected ==
    [][\A s \in Slots :
         (/\ Steps(s, "updateFind")
          /\ reqs'[s].target = reqs[s].user.id
          /\ Has(reqs'[s].body, "role")
          /\ reqs'[s].body.role = "USER")
         => /\ reqs'[s].pc = "done"
            /\ reqs'[s].resp = [status |-> 400,
                                body |-> [message |-> "You cannot demote yourself",
                                          errorCode |-> 7001]]
            /\ users' = users]_vars

(* The payload passes updateSchema: each field it carries is well formed. *)
ValidUpdatePayload(body) ==
    /\ Has(body, "name") => Len(Trim(body.name)) >= 6
    /\ Has(body, "email") => body.email \in WellFormedEmails
    /\ Has(body, "password") => Len(Trim(body.password)) >= 6
    /\ Has(body, "role") => body.role \in {"USER", "ADMIN"}

(* C6 amended: a self-targeted admin update whose payload role is USER     *)
(* fails with the self-demotion error when the payload passes the update   *)
(* schema, and with the validation error (400, 'Validation failed')        *)
(* otherwise; in both cases the request ends there and no field of the     *)
(* user row is changed.                                                    *)
C6_SelfDemotionRejected ==
    [][\A s \in Slots :
         (/\ Steps(s, "updateFind")
          /\ reqs'[s].target = reqs[s].user.id
          /\ Has(reqs'[s].body, "role")
          /\ reqs'[s].body.role = "USER")
         => /\ reqs'[s].pc = "done"
            /\ users' = users
            /\ reqs'[s].resp.status = 400
            /\ IF ValidUpdatePayload(reqs'[s].body)
               THEN reqs'[s].resp.body =
                        [message |-> "You cannot demote yourself",
                         errorCode |-> 7001]
               ELSE /\ reqs'[s].resp.body.message = "Validation failed"
                    /\ reqs'[s].resp.body.errorCode = 5002]_vars

(* An admin's update of its own row, carrying a valid new name together    *)
(* with role USER, has just been refused with the self-demotion error.     *)
C6_Witness ==
    \E s \in Slots :
        /\ reqs[s].route = "userUpdate"
        /\ reqs[s].pc = "done"
        /\ AuthPassed(reqs[s])
        /\ reqs[s].target = reqs[s].user.id
        /\ Has(reqs[s].body, "name")
        /\ ValidUpdatePayload(reqs[s].body)
        /\ reqs[s].body.role = "USER"
        /\ reqs[s].resp.body.message = "You cannot demote yourself"
        /\ users[reqs[s].target].role = "ADMIN"
        /\ users[reqs[s].target].name # reqs[s].body.name

AccessDenied ==
    [status |-> 401,
     body |-> [message |-> "Access Denied. Admins only", errorCode |-> 4001]]

(* C8: on an admin-only route a request that passed authMiddleware with a  *)
(* context role other than ADMIN (USER, ROOT, ...) is answered 401 'Access *)
(* Denied. Admins only' and its handler is not run; with role ADMIN it     *)
(* proceeds to the handler.                                                *)
C8_AdminGate ==
    \A s \in Slots :
        (reqs[s].route \in AdminRoutes /\ AuthPassed(reqs[s])) =>
            IF reqs[s].user.role = "ADMIN"
            THEN /\ Ran(reqs[s], "handler")
                 /\ reqs[s].resp # AccessDenied
            ELSE /\ reqs[s].pc = "done"
                 /\ reqs[s].resp = AccessDenied
                 /\ ~Ran(reqs[s], "handler")

(* The seeded ROOT user, logged in, has just been refused on an admin      *)
(* route.                                                                  *)
C8_Witness ==
    \E s \in Slots :
        /\ reqs[s].route \in AdminRoutes
        /\ AuthPassed(reqs[s])
        /\ reqs[s].user.role = "ROOT"
        /\ reqs[s].resp = AccessDenied

Unauthorized401 ==
    [status |-> 401, body |-> [message |-> "Unauthorized", errorCode |-> 4001]]

(* C9: authMiddleware answers a failed authentication with the same        *)
(* response (401, 'Unauthorized', 4001, no other field) in every failure   *)
(* mode: missing cookie, malformed token, bad signature, expired token,    *)
(* no matching active Token row.                                           *)
C9_FailureModesIndistinguishable ==
    \A s \in Slots :
        AuthFailed(reqs[s]) =>
            /\ reqs[s].pc = "done"
            /\ reqs[s].resp = Unauthorized401
            /\ reqs[s].setCookie = Null

(* A request has just failed on an expired token. *)
C9_Witness ==
    \E s \in Slots :
        /\ AuthFailedAs(reqs[s], "expired")
        /\ reqs[s].cookie \in jar
        /\ reqs[s].resp.status = 401

(* The stages that ran for r before its handler, in order. *)
BeforeHandler(r) ==
    LET i == CHOOSE k \in DOMAIN r.trace : r.trace[k].stage = "handler"
    IN  [k \in 1..(i - 1) |-> r.trace[k].stage]

(* C10: the handler of a protected route runs only after the cookie check, *)
(* the signature verification and the revocation lookup have all passed,   *)
(* in this order, and on an admin route only after isAdminMiddleware has   *)
(* passed after them; once a stage has failed the request, only            *)
(* errorMiddleware runs for it.                                            *)
C10_PipelineOrder ==
    \A s \in Slots :
        LET r == reqs[s] IN
        /\ (r.route \in ProtectedRoutes /\ Ran(r, "handler")) =>
              /\ BeforeHandler(r) =
                    IF r.route \in AdminRoutes
                    THEN <<"cookie", "verify", "lookup", "isAdmin">>
                    ELSE <<"cookie", "verify", "lookup">>
              /\ \A k \in DOMAIN BeforeHandler(r) : r.trace[k].ok
              /\ AuthPassed(r)
        /\ \A i \in DOMAIN r.trace :
              ~r.trace[i].ok =>
                 /\ \A j \in DOMAIN r.trace :
                       j > i => r.trace[j].stage = "errorMiddleware"
                 /\ i < Len(r.trace)
                 /\ r.pc = "done"
                 /\ r.resp.status = 401

(* The handler of an admin route is running, after all four stages.        *)
C10_Witness ==
    \E s \in Slots :
        /\ reqs[s].route = "userUpdate"
        /\ reqs[s].pc = "updateFind"
        /\ Len(reqs[s].trace) = 5

----------------------------------------------------------------------------
(* The error envelope with no errors field. *)
Envelope(status, message, errorCode) ==
    [status |-> status, body |-> [message |-> message, errorCode |-> errorCode]]

(* C11: a logout that has passed authMiddleware and finds, at delete time,  *)
(* no active Token row with its context's record id and token string is     *)
(* answered 404 'token not found' (errorCode 6001), not 401 and not 500,    *)
(* and the cookie is not cleared.                                           *)
C11_DoubleLogoutIsTokenNotFound ==
    [][\A s \in Slots :
         (/\ Steps(s, "logoutDelete")
          /\ ~\E t \in tokens : /\ t.id = reqs[s].token.id
                                /\ t.key = reqs[s].token.key
                                /\ t.active)
         => /\ reqs'[s].pc = "done"
            /\ reqs'[s].resp.status = 404
            /\ reqs'[s].resp.body.errorCode = TOKEN_NOT_FOUND
            /\ reqs'[s].setCookie = Null]_vars

(* The non-deleted rows that hold the email. *)
ActiveByEmail(email) ==
    {i \in UserIds : users[i].email = email /\ ~users[i].delete}

C14_SoftDeletedCannotAuthenticate ==
    [][\A s \in Slots :
         (/\ Steps(s, "authLookup")
          /\ reqs[s].cookie.sub \in UserIds
          /\ users[reqs[s].cookie.sub].delete)
         => ~AuthPassed(reqs'[s])]_vars

(* C15: a signup whose email already belongs to a non-deleted user is       *)
(* answered 400 'user already exists' (errorCode 1002) and creates no user  *)
(* row, in every interleaving of concurrent signups with the same email;    *)
(* no two user rows ever share an email.                                    *)
C15_DuplicateSignupRejected ==
    [][/\ \A s \in Slots :
            (/\ Steps(s, "signupIsExists") \/ Steps(s, "signupCreate")
             /\ ActiveByEmail(reqs[s].local.email) # {})
            => /\ reqs'[s].pc = "done"
               /\ reqs'[s].resp = Envelope(400, "User already exists!",
                                           USER_ALREADY_EXISTS)
               /\ users' = users
       /\ \A i, j \in DOMAIN users' :
            i # j => users'[i].email # users'[j].email]_vars

(* The three outcomes the signup endpoint declares. *)
SignupOutcome(resp) ==
    \/ resp.status = 201 /\ DOMAIN resp.body = {"email", "role"}
    \/ resp = Envelope(400, "User already exists!", USER_ALREADY_EXISTS)
    \/ /\ resp.status = 400
       /\ resp.body.errorCode = VALIDATION_ERROR
       /\ resp.body.message = "Validation failed"

(* C16: with the store available, every signup request that reaches its     *)
(* handler ends in exactly one of 201 {email, role}, 400 user-exists or     *)
(* 400 validation, a signup with the email of a soft-deleted user included. *)
C16_SignupOutcomes ==
    \A s \in Slots :
        (/\ reqs[s].route = "signup"
         /\ reqs[s].pc = "done"
         /\ Ran(reqs[s], "handler"))
        => SignupOutcome(reqs[s].resp)

(* Field-level details: a non-empty list of {field, message}. *)
FieldDetails(errors) ==
    /\ errors # Null
    /\ errors.js = "array"
    /\ errors.items # <<>>

(* C17: every error response written by errorMiddleware or by errorHandler  *)
(* has the envelope {message, errorCode}, with an errors field only when    *)
(* there are field-level details: never null and never empty.               *)
C17_ErrorsOnlyWithDetails ==
    \A s \in Slots :
        LET r == reqs[s] IN
        (/\ r.pc = "done"
         /\ r.resp.status >= 400
         /\ "message" \in DOMAIN r.resp.body)
        => /\ {"message", "errorCode"} \subseteq DOMAIN r.resp.body
           /\ DOMAIN r.resp.body \subseteq {"message", "errorCode", "errors"}
           /\ "errors" \in DOMAIN r.resp.body => FieldDetails(r.resp.body.errors)

(* C18: every failed request is answered with the uniform envelope and a    *)
(* status in {400, 401, 404, 500}, an unrecognised failure as Internal      *)
(* (500); no 2xx response carries an error.                                 *)
C18_UniformFailures ==
    \A s \in Slots :
        LET r == reqs[s] IN
        r.pc = "done" =>
           IF r.resp.status \in 200..299
           THEN "errorCode" \notin DOMAIN r.resp.body
           ELSE /\ r.resp.status \in {400, 401, 404, 500}
                /\ {"message", "errorCode"} \subseteq DOMAIN r.resp.body
                /\ DOMAIN r.resp.body \subseteq {"message", "errorCode", "errors"}
                /\ r.resp.status = 500 =>
                      r.resp.body.errorCode = INTERNAL_EXCEPTION

(* C12: when persisting the Token row fails during login, the login fails   *)
(* as a whole: no jwt cookie is set, no success response is sent, the       *)
(* client receives an error; and no client ever holds a token string for    *)
(* which no Token row was created.                                          *)
C12_LoginAtomic ==
    [][/\ \A s \in Slots :
            (StoreRejects(s) /\ reqs[s].pc = "loginCreateToken") =>
               /\ reqs'[s].pc = "done"
               /\ reqs'[s].setCookie = Null
               /\ reqs'[s].resp.status = 500
               /\ "errorCode" \in DOMAIN reqs'[s].resp.body
               /\ jar' = jar
               /\ tokens' = tokens
       /\ \A k \in jar' : \E t \in tokens' \cup loggedOut' : t.key = k]_vars

(* A login with correct credentials has just failed on db.token.create,     *)
(* and no client holds the token it had signed.                             *)
C12_Witness ==
    \E s \in Slots :
        /\ reqs[s].route = "login"
        /\ reqs[s].pc = "done"
        /\ reqs[s].resp.status = 500
        /\ reqs[s].local # Null
        /\ reqs[s].local.token \notin jar
        /\ reqs[s].setCookie = Null

(* C19: an unexpected failure of the store in any operation, the revocation *)
(* lookup of authMiddleware included, reaches the client as Internal (500), *)
(* not as Unauthorized or another client error, and the body carries no     *)
(* detail of the internal error.                                            *)
C19_StoreFailureIsInternal ==
    [][\A s \in Slots :
         StoreRejects(s) =>
            /\ reqs'[s].pc = "done"
            /\ reqs'[s].resp.status = 500
            /\ reqs'[s].resp.body.errorCode = INTERNAL_EXCEPTION
            /\ "errors" \notin DOMAIN reqs'[s].resp.body]_vars

(* C20: the jwt cookie of every successful login is HTTP-only, sameSite lax *)
(* with max-age 3600 seconds, secure exactly when the environment flag is   *)
(* production; the token is in the cookie only, never in the body.          *)
C20_LoginCookieAttributes ==
    [][\A s \in Slots :
         (Steps(s, "loginCreateToken") /\ reqs'[s].resp # Null
          /\ reqs'[s].resp.status = 200) =>
            LET c == reqs'[s].setCookie IN
            /\ c # Null
            /\ c.name = "jwt"
            /\ c.httpOnly
            /\ c.sameSite = "lax"
            /\ c.maxAge = TokenTtl * 1000
            /\ c.secure = (NODE_ENV = "production")
            /\ DOMAIN reqs'[s].resp.body = {"userID", "message"}]_vars

----------------------------------------------------------------------------
(* The fields of a user row that an update payload can carry. *)
UpdatableFields == {"name", "email", "password", "role"}

(* C21: an admin update changes only the fields present in its payload:    *)
(* every field the payload omits has, after the request's write, the value *)
(* it had in the store immediately before that write, in every             *)
(* interleaving with other updates of the same user.                       *)
C21_UpdateOnlyPayloadFields ==
    [][\A s \in Slots :
         (Steps(s, "updateWrite") /\ reqs'[s].resp.status = 200) =>
            \A f \in UpdatableFields \ DOMAIN reqs[s].body :
                users'[reqs[s].target][f] = users[reqs[s].target][f]]_vars

(* C24: a successful logout deletes exactly one Token row, the one whose   *)
(* id and key authMiddleware attached to the request, answers with that    *)
(* row's userId, and leaves every other Token row and every user row       *)
(* unchanged.                                                              *)
C24_LogoutDeletesOwnRecord ==
    [][\A s \in Slots :
         (Steps(s, "logoutDelete") /\ reqs'[s].resp.status = 201) =>
            \E t \in tokens :
                /\ t.id = reqs[s].token.id
                /\ t.key = reqs[s].token.key
                /\ tokens' = tokens \ {t}
                /\ Cardinality(tokens') = Cardinality(tokens) - 1
                /\ reqs'[s].resp.body.userId = t.userId
                /\ users' = users]_vars

(* A logout has just succeeded while another session of the same user and  *)
(* a session of another user exist; both are still in the table.           *)
C24_Witness ==
    \E s \in Slots, mine \in tokens, other \in tokens :
        /\ reqs[s].route = "logout"
        /\ reqs[s].pc = "done"
        /\ reqs[s].resp.status = 201
        /\ mine.userId = reqs[s].resp.body.userId
        /\ other.userId # reqs[s].resp.body.userId
        /\ \E d \in loggedOut : d.id = reqs[s].token.id /\ d \notin tokens

(* C26: on every request that passes authMiddleware, req.user.id equals    *)
(* the sub claim of the presented token and the userId of the matched      *)
(* Token row, and req.token holds that row's id and a key equal to the     *)
(* presented cookie string.                                                *)
C26_ContextMatchesRecord ==
    [][\A s \in Slots :
         (Steps(s, "authLookup") /\ AuthPassed(reqs'[s])) =>
            /\ reqs'[s].user.id = reqs[s].cookie.sub
            /\ reqs'[s].token.key = reqs[s].cookie
            /\ \E t \in tokens :
                  /\ t.id = reqs'[s].token.id
                  /\ t.userId = reqs'[s].user.id
                  /\ t.key = reqs[s].cookie
                  /\ t.active]_vars

(* A request has passed authMiddleware on a record whose id differs from   *)
(* its owner's id.                                                         *)
C26_Witness ==
    \E s \in Slots :
        /\ AuthPassed(reqs[s])
        /\ reqs[s].token.id # reqs[s].user.id
        /\ reqs[s].cookie.sub = reqs[s].user.id

(* C27: the role authMiddleware places in the context is the role on the   *)
(* user's row at the time of the lookup, not the role claim of the token:  *)
(* on an admin route the request reaches its handler exactly when that     *)
(* row's role is ADMIN, also on a session issued before the role changed.  *)
C27_RoleFromUserRow ==
    [][\A s \in Slots :
         (Steps(s, "authLookup") /\ AuthPassed(reqs'[s])) =>
            LET row == users[reqs[s].cookie.sub] IN
            /\ reqs'[s].user.role = row.role
            /\ reqs[s].route \in AdminRoutes =>
                  (Ran(reqs'[s], "handler") <=> row.role = "ADMIN")]_vars

(* A session issued while its user was not an administrator has reached    *)
(* the handler of an admin route after the user's role was changed.        *)
C27_Witness ==
    \E s \in Slots :
        /\ AuthPassed(reqs[s])
        /\ reqs[s].route \in AdminRoutes
        /\ reqs[s].cookie.role # "ADMIN"
        /\ reqs[s].user.role = "ADMIN"
        /\ Ran(reqs[s], "handler")

(* C29: an admin update or soft-delete whose target differs from the       *)
(* acting admin's id is never rejected with the self-demotion or           *)
(* self-deletion error, whatever the target's role; a self-targeted update *)
(* without a role, or with role ADMIN, is not rejected by the              *)
(* self-demotion check.                                                    *)
C29_SelfChecksOnlyOnSelf ==
    [][\A s \in Slots :
         /\ (/\ Steps(s, "updateFind")
             /\ \/ reqs'[s].target # reqs[s].user.id
                \/ ~Has(reqs'[s].body, "role")
                \/ reqs'[s].body.role = "ADMIN"
             /\ reqs'[s].pc = "done")
            => reqs'[s].resp.body.errorCode # SELF_DEMOTION
         /\ (/\ Steps(s, "softDeleteFind")
             /\ reqs'[s].target # reqs[s].user.id
             /\ reqs'[s].pc = "done")
            => reqs'[s].resp.body.errorCode # SELF_DEMOTION]_vars

(* An administrator's soft-delete of another administrator's row has       *)
(* passed the guard and is about to be written.                            *)
C29_Witness ==
    \E s \in Slots :
        /\ reqs[s].route = "userSoftDelete"
        /\ reqs[s].pc = "softDeleteWrite"
        /\ reqs[s].target # reqs[s].user.id
        /\ users[reqs[s].target].role = "ADMIN"

----------------------------------------------------------------------------
(* The pending store calls of the task handlers: the lookups that take the *)
(* :id of the request, and the writes.                                     *)
TaskLookups == {"taskFindOneQuery", "taskUpdateFind", "taskCompleteFind",
                "taskDeleteFind"}
TaskWrites == {"taskCreate", "taskUpdateWrite", "taskCompleteWrite",
               "taskDeleteWrite"}
TaskQueries == {"taskListQuery", "taskFilterQuery"}

(* The rows a task response carries. *)
TaskRowsOf(r) ==
    IF r.route \notin TaskRoutes \/ r.resp = Null THEN {}
    ELSE IF ~Has(r.resp.body, "data") THEN {}
    ELSE IF r.route \in {"taskList", "taskFilter"} THEN r.resp.body.data
    ELSE {r.resp.body.data}

(* C23: a task request authenticated as user U changes, creates and        *)
(* returns only rows whose userId is U; a request that names an existing   *)
(* task of another user is answered 404 (errorCode 1005, 'Task does not    *)
(* exists!') by the lookup and the Task table is unchanged by that step.   *)
C23_TaskIsolation ==
    [][/\ tasks' # tasks =>
             \E s \in Slots : reqs[s].pc \in TaskWrites /\ reqs'[s] # reqs[s]
       /\ \A s \in Slots :
            (reqs[s].pc \in TaskLookups \cup TaskWrites \cup TaskQueries
             /\ reqs'[s] # reqs[s])
            => LET U == reqs[s].user.id
               IN  /\ \A i \in DOMAIN tasks :
                        tasks'[i] # tasks[i] => tasks[i].userId = U
                   /\ \A i \in DOMAIN tasks' \ DOMAIN tasks :
                        tasks'[i].userId = U
                   /\ \A row \in TaskRowsOf(reqs'[s]) : row.userId = U
                   /\ (/\ reqs[s].pc \in TaskLookups
                       /\ reqs'[s].target \in DOMAIN tasks
                       /\ tasks[reqs'[s].target].userId # U)
                      => /\ reqs'[s].resp =
                              Envelope(404, "Task does not exists!",
                                       USER_TASK_NOT_FOUND)
                         /\ tasks' = tasks]_vars

(* An update has named a task of another user that exists and is not       *)
(* deleted, and was answered 404.                                          *)
C23_Witness ==
    \E s \in Slots :
        /\ reqs[s].route = "taskUpdate"
        /\ reqs[s].pc = "done"
        /\ AuthPassed(reqs[s])
        /\ reqs[s].target \in DOMAIN tasks
        /\ tasks[reqs[s].target].userId # reqs[s].user.id
        /\ ~tasks[reqs[s].target].delete
        /\ reqs[s].resp.status = 404

(* C30: no step changes a row of the Task table whose delete flag is set.  *)
C30_DeletedTaskIsFrozen ==
    [][\A i \in DOMAIN tasks : tasks[i].delete => tasks'[i] = tasks[i]]_vars

(* C22: a GET /user?deleted=... that passes both gates is handled by       *)
(* listFiler and answered 200 with exactly the rows whose delete flag      *)
(* equals the query value.                                                 *)
C22_FilterServedByListFiler ==
    [][\A s \in Slots :
         (/\ reqs[s].url.path = <<"user">>
          /\ Ran(reqs[s], "handler")
          /\ reqs[s].pc # "done"
          /\ reqs'[s].pc = "done")
         => /\ reqs[s].route = "userFilter"
            /\ reqs'[s].resp = listFiler(reqs[s]).resp]_vars

(* C28: some row of the User table is a non-deleted ADMIN. *)
C28_SomeAdminRemains ==
    \E i \in DOMAIN users : users[i].role = "ADMIN" /\ ~users[i].delete

(* C25: the Token table changes only in a login step answered 200, which   *)
(* adds one row, and in a logout step answered 201, which removes rows;    *)
(* signup, failed login, failed authentication, admin update, admin        *)
(* soft-delete and every task operation leave it as it was.                *)
C25_SessionsOnlyByLoginAndLogout ==
    [][tokens' # tokens =>
          \E s \in Slots :
             \/ /\ Steps(s, "loginCreateToken")
                /\ reqs'[s].resp.status = 200
                /\ \E row \in tokens' \ tokens : tokens' = tokens \cup {row}
             \/ /\ Steps(s, "logoutDelete")
                /\ reqs'[s].resp.status = 201
                /\ tokens' \subseteq tokens]_vars

(* An administrator's soft-delete of a user has been answered 200 and an   *)
(* active Token row of that user is in the table.                          *)
C25_Witness ==
    \E s \in Slots, t \in tokens :
        /\ reqs[s].route = "userSoftDelete"
        /\ reqs[s].pc = "done"
        /\ reqs[s].resp.status = 200
        /\ users[reqs[s].target].delete
        /\ t.userId = reqs[s].target
        /\ t.active

(* The passwords clients supply, as the schemas hand them on. *)
Plaintexts == {Trim(pw) : pw \in {PwGood, PwOther, PwShort}}

(* C31: the password of every user row is a hash output at all times; a    *)
(* signup stores the hash of its password, an admin update with a password *)
(* stores the hash of that password, and an admin update without one       *)
(* leaves the stored hash as it was immediately before the write.          *)
C31_PasswordsAreHashes ==
    /\ [](\A i \in DOMAIN users :
             users[i].password \in {hashSync(pw) : pw \in Plaintexts})
    /\ [][\A s \in Slots :
           /\ (Steps(s, "signupCreate") /\ reqs'[s].resp.status = 201)
              => users'[Len(users')].password =
                    hashSync(Trim(reqs[s].body.password))
           /\ (Steps(s, "updateWrite") /\ reqs'[s].resp.status = 200)
              => users'[reqs[s].target].password =
                    IF Has(reqs[s].body, "password")
                    THEN hashSync(Trim(reqs[s].body.password))
                    ELSE users[reqs[s].target].password]_vars

(* The token of the row has expired. *)
Expired(row) == now >= row.key.exp

(* Slot s takes a new request in this step. *)
Received(s) == nreq' = nreq + 1 /\ reqs'[s] # Settled[s]

(* C32: a Token row whose token has expired is in the table in every later *)
(* state.                                                                  *)
C32_ExpiredRecordRemains ==
    [][\A row \in tokens : Expired(row) => row \in tokens']_vars

(* C32, amended: a Token row whose token has expired is removed only by    *)
(* the delete of a logout that had passed jwt.verify before the expiry and *)
(* was still in flight; a request that arrives with an expired token is    *)
(* answered 401 at once and reaches no handler.                            *)
C32_ExpiredRemovedOnlyByInFlightLogout ==
    [][/\ \A row \in tokens :
            (Expired(row) /\ row \notin tokens')
            => \E s \in Slots : /\ Steps(s, "logoutDelete")
                                /\ reqs[s].token = reqToken(row)
                                /\ ~AuthFailed(reqs[s])
       /\ \A s \in Slots :
            (/\ Received(s)
             /\ Uses(reqs'[s].route, "authMiddleware")
             /\ reqs'[s].cookie \in jar
             /\ now >= reqs'[s].cookie.exp)
            => /\ reqs'[s].pc = "done"
               /\ reqs'[s].resp.status = 401
               /\ tokens' = tokens]_vars

(* A logout that presented an expired token has been answered 401 and the  *)
(* token's row is in the table.                                            *)
C32_Witness ==
    \E s \in Slots, row \in tokens :
        /\ reqs[s].route = "logout"
        /\ reqs[s].pc = "done"
        /\ reqs[s].cookie = row.key
        /\ Expired(row)
        /\ AuthFailedAs(reqs[s], "expired")
        /\ reqs[s].resp.status = 401

(* C33: a request that has been answered had exactly one response written, *)
(* either a success or an error of one kind, on the next(error) path and   *)
(* on the errorHandler path; a request that fails is answered; a request   *)
(* still in flight has had none.                                           *)
C33_ExactlyOneOutcome ==
    \A s \in Slots :
        /\ reqs[s].pc = "done" =>
              /\ reqs[s].sent = 1
              /\ reqs[s].resp # Null
              /\ (reqs[s].resp.status \in 200..299) # (reqs[s].resp.status >= 400)
              /\ reqs[s].resp.status >= 400 =>
                    (Ran(reqs[s], "errorMiddleware") # Ran(reqs[s], "errorHandler")
                     \/ reqs[s].route = "unknown")
        /\ reqs[s].pc # "done" => reqs[s].sent = 0 /\ reqs[s].resp = Null

(* A store rejection inside a handler has been answered by errorHandler,   *)
(* which then forwarded the exception.                                     *)
C33_Witness ==
    \E s \in Slots :
        /\ reqs[s].pc = "done"
        /\ Ran(reqs[s], "errorHandler")
        /\ reqs[s].resp.status = 500
        /\ reqs[s].sent = 1

(* C34: when every store call eventually returns, a request that waits in  *)
(* authMiddleware's lookup is eventually passed on to the next stage or    *)
(* answered with an error, and every request in flight is eventually       *)
(* answered.                                                               *)
C34_ProtectedRequestsTerminate ==
    \A s \in Slots :
        /\ (reqs[s].pc = "authLookup")
              ~> (AuthPassed(reqs[s]) \/ reqs[s].pc = "done")
        /\ Busy(s) ~> ~Busy(s)

(* A request that waited in the lookup has been failed by it with 401. *)
C34_Witness ==
    \E s \in Slots :
        /\ reqs[s].pc = "done"
        /\ AuthFailedAs(reqs[s], "revoked")
        /\ reqs[s].resp.status = 401

(* C35: the key of every Token row is a token whose sub claim is the row's *)
(* userId, that userId is the id of a row of the User table, and no step   *)
(* removes a row of the User table.                                        *)
C35_SessionsBelongToUsers ==
    /\ [](\A row \in tokens : /\ row.key.kind = "jwt"
                               /\ row.key.sub = row.userId
                               /\ row.userId \in DOMAIN users
                               /\ users[row.userId].id = row.userId)
    /\ [][\A i \in DOMAIN users :
            i \in DOMAIN users' /\ users'[i].id = users[i].id]_vars

(* A Token row belongs to a user who has since been soft-deleted. *)
C35_Witness ==
    \E row \in tokens :
        /\ row.key.sub = row.userId
        /\ users[row.userId].delete

(* C36: the active flag of every Token row is true. *)
C36_SessionsAlwaysActive == \A row \in tokens : row.active

(* A logout has removed a Token row while another row, still active, is in *)
(* the table.                                                              *)
C36_Witness ==
    /\ \E d \in loggedOut : d \notin tokens
    /\ \E row \in tokens : row.active
====
